---- MODULE Spec2Model ----
(***************************************************************************)
(* Model of stakesui.py: the Streamlit "Start Extraction" handler, the     *)
(* per-transaction scraper scrape_suiscan, the "Show more" expansion        *)
(* (coordinate_click) and the keyword/amount search over the page text.    *)
(*                                                                         *)
(* Strings are sequences of one-character strings.  Positions inside the   *)
(* search operators are 0-based, as in the Python source.                  *)
(***************************************************************************)
EXTENDS Integers, Sequences, FiniteSets, TLC

VARIABLES
    phase,          \* "idle" | "rejected" | "nobrowser" | "crashed" | "running" | "done"
    table,          \* df[hash_col]: the uploaded identifiers, raw
    target_keyword, \* the text input
    debug_mode,     \* the checkbox
    site,           \* environment: which documents the site serves, "small" | "full"
    message,        \* the last st.error / st.success text
    browser,        \* "none" | "active" | "failed" | "quit"
    index,          \* rows of df already iterated
    pc,             \* position inside scrape_suiscan for row index+1
    page,           \* the document the driver currently shows (node names)
    iter,           \* the `for _ in range(3)` counter
    screenshot,     \* scrape_suiscan's local: TRUE once a PNG was captured
    results,        \* the results list
    warned,         \* rows whose screenshot was shown in the debug area
    requested,      \* hashes whose URL was passed to driver.get
    final_df,       \* the table shown after the loop
    clicked,        \* the loop's local: what the last coordinate_click returned
    attempts,       \* history: coordinate_click calls made for the current row
    failures,       \* history: what raised while the current row was processed
    parsed,         \* history: the search logic ran for the current row
    stopRequested,  \* environment: the user asked the run to stop
    stopAt          \* history: Len(requested) when the stop was asked

vars == << phase, table, target_keyword, debug_mode, site, message, browser, index, pc,
           page, iter, screenshot, results, warned, requested, final_df,
           clicked, attempts, failures, parsed, stopRequested, stopAt >>

(***************************************************************************)
(* Bounds of the model and constants of the program.                       *)
(***************************************************************************)
MaxRows == 2        \* rows of the uploaded table
MaxItems == 3       \* nodes of a served document, when the site is "full"

Window == 150       \* characters searched behind a keyword occurrence
SnippetLen == 50    \* characters of context quoted when no amount is linked
Retries == 3        \* range(3) of the pagination loop

FillerLen == Window - 4

(***************************************************************************)
(* Characters and strings.                                                 *)
(***************************************************************************)
Max(a, b) == IF a >= b THEN a ELSE b

Min(a, b) == IF a <= b THEN a ELSE b

\* str.lower() on one character of the model's alphabet
Lower(c) ==
    CASE c = "N" -> "n"
      [] c = "A" -> "a"
      [] c = "S" -> "s"
      [] c = "U" -> "u"
      [] c = "I" -> "i"
      [] OTHER -> c

LowerStr(s) == [i \in 1..Len(s) |-> Lower(s[i])]

\* a case-sensitive comparison, the bug of forgetting re.IGNORECASE / .lower()
CaseEqExact(a, b) == a = b

\* re.IGNORECASE: two characters match when they are equal up to letter case
CaseEq(a, b) == Lower(a) = Lower(b)

\* the class [\-\d\.,] of the amount pattern
IsNumChar(c) ==
    c \in {"-", ".", ",", "0", "1", "2", "3", "4", "5", "6", "7", "8", "9"}

\* the class \s
IsSpace(c) == c \in {" ", "\t", "\n"}

\* Python's s[a:b] for 0 <= a
Slice(s, a, b) == SubSeq(s, a + 1, Min(b, Len(s)))

\* c * n
Repeat(c, n) == [i \in 1..n |-> c]

RECURSIVE StripLeft(_)
StripLeft(s) ==
    IF s # << >> /\ IsSpace(Head(s)) THEN StripLeft(Tail(s)) ELSE s

RECURSIVE StripRight(_)
StripRight(s) ==
    IF s # << >> /\ IsSpace(s[Len(s)]) THEN StripRight(SubSeq(s, 1, Len(s) - 1)) ELSE s

\* str.strip()
Strip(s) == StripRight(StripLeft(s))

(***************************************************************************)
(* The served document: a sequence of nodes, each a text run or a tag.     *)
(* driver.page_source is the markup; BeautifulSoup.get_text(separator=     *)
(* "  ") keeps the text nodes only, joined by two spaces.                  *)
(***************************************************************************)
\* A1: an amount; KA: the keyword, then an amount; K: the keyword; F: filler
\* nearly as long as the search window; G: a tag whose name holds the keyword
NodeNames == {"A1", "KA", "K", "F", "G"}

NodeIsTag(n) == n = "G"

NodeStr(n) ==
    CASE n = "A1" -> << "5", "7", "S", "U", "I" >>
      [] n = "KA" -> << "N", "a", "-", "5", " ", "s", "u", "i" >>
      [] n = "K"  -> << "N", "a" >>
      [] n = "F"  -> Repeat("x", FillerLen)
      [] n = "G"  -> << "n", "A" >>

RECURSIVE PageSource(_)
PageSource(p) ==
    IF p = << >> THEN << >>
    ELSE (IF NodeIsTag(Head(p)) THEN << "<" >> \o NodeStr(Head(p)) \o << ">" >>
                                ELSE NodeStr(Head(p)))
         \o PageSource(Tail(p))

\* the text nodes the parser builds: adjacent text runs are one node
RECURSIVE TextNodes(_, _, _)
TextNodes(p, cur, open) ==
    IF p = << >> THEN (IF open THEN << cur >> ELSE << >>)
    ELSE IF NodeIsTag(Head(p))
         THEN (IF open THEN << cur >> ELSE << >>) \o TextNodes(Tail(p), << >>, FALSE)
         ELSE TextNodes(Tail(p), cur \o NodeStr(Head(p)), TRUE)

RECURSIVE Join(_, _)
Join(nodes, sep) ==
    IF nodes = << >> THEN << >>
    ELSE IF Len(nodes) = 1 THEN nodes[1]
    ELSE nodes[1] \o sep \o Join(Tail(nodes), sep)

\* soup.get_text(separator="  ")
GetText(p) == Join(TextNodes(p, << >>, FALSE), << " ", " " >>)

(***************************************************************************)
(* The pagination loop's test and the search logic.                        *)
(***************************************************************************)
\* a in b for strings
Contains(needle, hay) ==
    \E p \in 0..(Len(hay) - Len(needle)) :
        \A j \in 1..Len(needle) : hay[p + j] = needle[j]

\* target_keyword.lower() in driver.page_source.lower()
KeywordInSource(kw, p) == Contains(LowerStr(kw), LowerStr(PageSource(p)))

\* re.escape(kw) matches text at 0-based position p
KeywordAt(kw, text, p) ==
    /\ p + Len(kw) <= Len(text)
    /\ \A j \in 1..Len(kw) : CaseEq(text[p + j], kw[j])

\* re.finditer keeps the leftmost match, then searches on after its end
\* (after an empty match, one character further)
RECURSIVE PickNonOverlapping(_, _, _)
PickNonOverlapping(cands, from, step) ==
    LET rest == {p \in cands : p >= from}
    IN  IF rest = {} THEN << >>
        ELSE LET p == CHOOSE q \in rest : \A r \in rest : q <= r
             IN  << p >> \o PickNonOverlapping(cands, p + step, step)

\* [m.start() for m in re.finditer(re.escape(kw), page_text, re.IGNORECASE)]
KeywordMatches(kw, text) ==
    PickNonOverlapping({p \in 0..Len(text) : KeywordAt(kw, text, p)},
                       0, Max(Len(kw), 1))

\* the end (exclusive, 0-based) of the maximal run of [\-\d\.,] starting at q
RECURSIVE NumRunEnd(_, _)
NumRunEnd(s, q) ==
    IF q < Len(s) /\ IsNumChar(s[q + 1]) THEN NumRunEnd(s, q + 1) ELSE q

\* the end (exclusive, 0-based) of the maximal run of \s starting at q
RECURSIVE SpaceRunEnd(_, _)
SpaceRunEnd(s, q) ==
    IF q < Len(s) /\ IsSpace(s[q + 1]) THEN SpaceRunEnd(s, q + 1) ELSE q

IsSUIAt(s, k) ==
    /\ k + 3 <= Len(s)
    /\ CaseEq(s[k + 1], "S") /\ CaseEq(s[k + 2], "U") /\ CaseEq(s[k + 3], "I")

\* ([\-\d\.,]+)\s*SUI matched at 0-based position p: the character classes
\* are disjoint, so the greedy runs are the only way to match
AmountAt(s, p) ==
    LET j == NumRunEnd(s, p)
        k == SpaceRunEnd(s, j)
    IN  [ok |-> j > p /\ IsSUIAt(s, k), start |-> p, group |-> Slice(s, p, j),
         end |-> k + 3]

RECURSIVE AmountScan(_, _)
AmountScan(s, from) ==
    LET cands == {p \in from..(Len(s) - 1) : IsNumChar(s[p + 1]) /\ AmountAt(s, p).ok}
    IN  IF cands = {} THEN << >>
        ELSE LET p == CHOOSE q \in cands : \A r \in cands : q <= r
                 m == AmountAt(s, p)
             IN  << m >> \o AmountScan(s, m.end)

\* list(amount_pattern.finditer(text_chunk))
AmountMatches(text_chunk) == AmountScan(text_chunk, 0)

\* page_text[max(0, match_index - 150) : match_index]
TextChunk(page_text, match_index) ==
    Slice(page_text, Max(0, match_index - Window), match_index)

\* taking the first amount of the chunk instead of the last
BestMatchFirst(matches_in_chunk) == matches_in_chunk[1]

\* matches_in_chunk[-1]
BestMatch(matches_in_chunk) == matches_in_chunk[Len(matches_in_chunk)]

NotFound == << "N", "o", "t", " ", "F", "o", "u", "n", "d" >>

(***************************************************************************)
(* Rows built by scrape_suiscan.  A row is a dict; HasAmount says whether   *)
(* the "Amount to '<keyword>'" key is present.  Notes that quote the        *)
(* keyword are kept by their fixed wording, the quoted context in Context,  *)
(* and str(e) by the place that raised, in Exc.                             *)
(***************************************************************************)
NoteUnreachable == "Could not reach URL"

NoteNoKeyword == "Keyword not found (List collapsed?)"

NoteSuccess == "Success"

NoteNotLinked == "Found keyword but amount not linked"

NoteException == "str(e)"

\* an error row built from the result template, amount marker included
NetworkErrorRowWithAmount(tx_hash) ==
    [Hash |-> tx_hash, HasAmount |-> TRUE, Amount |-> NotFound,
     Status |-> "Network Error", Notes |-> NoteUnreachable,
     Context |-> << >>, Exc |-> ""]

\* the early return of the driver.get handler
NetworkErrorRow(tx_hash) ==
    [Hash |-> tx_hash, HasAmount |-> FALSE, Amount |-> << >>,
     Status |-> "Network Error", Notes |-> NoteUnreachable,
     Context |-> << >>, Exc |-> ""]

\* the result dict before the try block
InitialResult(tx_hash) ==
    [Hash |-> tx_hash, HasAmount |-> TRUE, Amount |-> NotFound,
     Status |-> "Processed", Notes |-> "", Context |-> << >>, Exc |-> ""]

\* an except clause that records nothing
OnExceptionSilent(result, where) == result

\* except Exception as e: Status = "Error", Notes = str(e)
OnException(result, where) ==
    [result EXCEPT !.Status = "Error", !.Notes = NoteException, !.Exc = where]

\* a scan that gives up after the first keyword occurrence
RECURSIVE ScanFirstOnly(_, _, _)
ScanFirstOnly(page_text, keyword_matches, i) ==
    IF i > Len(keyword_matches) \/ i > 1 THEN [found_amount |-> FALSE, amount |-> << >>]
    ELSE LET matches_in_chunk == AmountMatches(TextChunk(page_text, keyword_matches[i]))
         IN  IF matches_in_chunk # << >>
             THEN [found_amount |-> TRUE, amount |-> BestMatch(matches_in_chunk).group]
             ELSE ScanFirstOnly(page_text, keyword_matches, i + 1)

\* for match_index in keyword_matches: ... break on the first linked amount
RECURSIVE ScanOccurrences(_, _, _)
ScanOccurrences(page_text, keyword_matches, i) ==
    IF i > Len(keyword_matches) THEN [found_amount |-> FALSE, amount |-> << >>]
    ELSE LET matches_in_chunk == AmountMatches(TextChunk(page_text, keyword_matches[i]))
         IN  IF matches_in_chunk # << >>
             THEN [found_amount |-> TRUE, amount |-> BestMatch(matches_in_chunk).group]
             ELSE ScanOccurrences(page_text, keyword_matches, i + 1)

\* a not-found branch that reports an error
NoKeywordResultAsError(result) ==
    [result EXCEPT !.Status = "Error", !.Notes = NoteNoKeyword]

\* if not keyword_matches: Notes = "Keyword ... not found (List collapsed?)"
NoKeywordResult(result) == [result EXCEPT !.Notes = NoteNoKeyword]

\* step 6 of scrape_suiscan, applied to the result dict
SearchLogic(kw, page_text, result) ==
    LET keyword_matches == KeywordMatches(kw, page_text)
    IN  IF keyword_matches = << >> THEN NoKeywordResult(result)
        ELSE LET scan == ScanOccurrences(page_text, keyword_matches, 1)
             IN  IF scan.found_amount
                 THEN [result EXCEPT !.Amount = scan.amount, !.Notes = NoteSuccess]
                 ELSE [result EXCEPT
                         !.Notes = NoteNotLinked,
                         !.Context = Slice(page_text,
                                           Max(0, keyword_matches[1] - SnippetLen),
                                           keyword_matches[1])]

(***************************************************************************)
(* Inputs and the environment's choices.                                   *)
(***************************************************************************)
RawIds == { << " ", "a" >>, << "b", " " >> }

Keywords == { << >>, << "N", "a" >>, << "n", "A" >> }

Tables(n) == UNION { [1..k -> RawIds] : k \in 0..n }

\* every document of up to MaxItems nodes
FullPages == UNION { [1..k -> NodeNames] : k \in 0..MaxItems }

\* an empty document, a keyword alone, an amount alone, an amount and a keyword
SmallPages == { << >>, << "K" >>, << "A1" >>, << "A1", "K" >> }

Pool == IF site = "full" THEN FullPages ELSE SmallPages

\* what a click on "Show more" can turn the document into: itself, or
\* itself with one more node
Expansions(p) == {p} \cup ({ Append(p, n) : n \in NodeNames } \cap Pool)

ClickOutcomes == {"clicked", "none", "exception"}

(***************************************************************************)
(* The "Start Extraction" handler.                                         *)
(***************************************************************************)
\* a validation that lets every keyword through
KeywordRejectedNever(kw) == FALSE

\* if not target_keyword
KeywordRejected(kw) == kw = << >>

\* str(row[hash_col]).strip() of the row being processed
TxHash == Strip(table[index + 1])

\* an append that drops the rows of unreachable pages
ResultsAppendDropUnreachable(rs, data) ==
    IF data.Status = "Network Error" THEN rs ELSE Append(rs, data)

\* results.append(data)
ResultsAppend(rs, data) == Append(rs, data)

\* debug_mode and screenshot and data[col_name] == "Not Found"; the lookup
\* raises KeyError when the key is missing
ShowsDebug(data, shot) == debug_mode /\ shot /\ data.Amount = NotFound

\* the rest of one loop iteration once scrape_suiscan has returned (its
\* locals are gone)
Complete(data, shot) ==
    /\ results' = ResultsAppend(results, data)
    /\ IF debug_mode /\ shot /\ ~data.HasAmount
       THEN phase' = "crashed" /\ UNCHANGED << warned, index >>
       ELSE /\ phase' = phase
            /\ warned' = IF ShowsDebug(data, shot) THEN warned \cup {index + 1} ELSE warned
            /\ index' = index + 1
    /\ pc' = "get"
    /\ iter' = 0
    /\ screenshot' = FALSE
    /\ clicked' = FALSE

\* pd.concat([df, results_df.drop(columns=["Transaction Hash"])], axis=1)
Concat(df, rs) ==
    [i \in 1..Max(Len(df), Len(rs)) |->
        [Input |-> IF i <= Len(df) THEN << df[i] >> ELSE << >>,
         Data  |-> IF i <= Len(rs) THEN << rs[i] >> ELSE << >>]]

\* the button pressed with an empty keyword
StartRejected ==
    /\ phase = "idle"
    /\ \E kw \in Keywords, dbg \in BOOLEAN :
        /\ KeywordRejected(kw)
        /\ target_keyword' = kw
        /\ debug_mode' = dbg
    /\ phase' = "rejected"
    /\ message' = "Please enter a keyword."
    /\ UNCHANGED << table, site, browser, index, pc, page, iter, screenshot,
                    results, warned, requested, final_df, clicked, attempts, failures,
                    parsed, stopRequested, stopAt >>

\* the button pressed with a keyword: get_driver() returns a driver, returns
\* None, or webdriver.Chrome raises
StartExtraction ==
    /\ phase = "idle"
    /\ \E kw \in Keywords, dbg \in BOOLEAN :
        /\ ~KeywordRejected(kw)
        /\ target_keyword' = kw
        /\ debug_mode' = dbg
    /\ \/ /\ browser' = "active"
          /\ phase' = "running"
          /\ message' = "Browser Active!"
       \/ /\ browser' = "failed"
          /\ phase' = "nobrowser"
          /\ message' = "Browser Error: Could not start Chrome. Check logs."
       \/ /\ browser' = "failed"
          /\ phase' = "crashed"
          /\ message' = "Starting Browser Engine..."
    /\ UNCHANGED << table, site, index, pc, page, iter, screenshot,
                    results, warned, requested, final_df, clicked, attempts, failures,
                    parsed, stopRequested, stopAt >>

(***************************************************************************)
(* scrape_suiscan, one step per call into the driver.                      *)
(***************************************************************************)
\* driver.get(url)
DriverGet ==
    /\ phase = "running" /\ pc = "get" /\ index < Len(table)
    /\ requested' = Append(requested, TxHash)
    /\ attempts' = 0
    /\ parsed' = FALSE
    /\ screenshot' = FALSE
    /\ iter' = 0
    /\ \/ /\ failures' = {"get"}
          /\ Complete(NetworkErrorRow(TxHash), FALSE)
          /\ UNCHANGED page
       \/ /\ failures' = {}
          /\ \E p \in Pool : page' = p
          /\ pc' = "wait"
          /\ UNCHANGED << phase, index, results, warned, clicked >>
    /\ UNCHANGED << table, target_keyword, debug_mode, site, message, browser,
                    final_df, stopRequested, stopAt >>

\* WebDriverWait(driver, 20).until(presence of body); time.sleep(5)
WaitBody ==
    /\ phase = "running" /\ pc = "wait"
    /\ \/ /\ pc' = "click"
          /\ UNCHANGED << phase, index, results, warned, failures, iter, screenshot, clicked >>
       \/ /\ failures' = failures \cup {"wait"}
          /\ Complete(OnException(InitialResult(TxHash), "wait"), FALSE)
    /\ UNCHANGED << table, target_keyword, debug_mode, site, message, browser,
                    page, requested, final_df, attempts, parsed,
                    stopRequested, stopAt >>

\* one call of coordinate_click: a visible element is clicked (True), none
\* is visible (False), or something raises and is swallowed (False)
CoordinateClick(inLoop, o) ==
    /\ attempts' = attempts + 1
    /\ clicked' = IF inLoop THEN (o = "clicked") ELSE clicked
    /\ failures' = IF o = "exception" THEN failures \cup {"click"} ELSE failures
    /\ IF o = "none" THEN page' = page
       ELSE \E p \in Expansions(page) : page' = p

\* step 2: the unconditional coordinate_click(driver)
FirstClick ==
    /\ phase = "running" /\ pc = "click"
    /\ \E o \in ClickOutcomes : CoordinateClick(FALSE, o)
    /\ pc' = "loop"
    /\ iter' = 0
    /\ UNCHANGED << phase, table, target_keyword, debug_mode, site, message,
                    browser, index, screenshot, results, warned, requested,
                    final_df, parsed, stopRequested, stopAt >>

\* where scrape_suiscan goes once the pagination loop is left
AfterLoop == IF debug_mode THEN "shot" ELSE "parse"

\* if target_keyword.lower() in driver.page_source.lower(): break
KeywordStopsLoop(kw, p) == KeywordInSource(kw, p)

\* a loop that clicks on although nothing was clicked
BreakOnNoButtonNever(c) == FALSE

\* if not clicked: break
BreakOnNoButton(c) == ~c

\* step 3, the head of an iteration: read the page source, test the keyword
LoopCheck ==
    /\ phase = "running" /\ pc = "loop"
    /\ \/ /\ pc' = IF KeywordStopsLoop(target_keyword, page) THEN AfterLoop ELSE "retry"
          /\ UNCHANGED << phase, index, results, warned, failures, iter, screenshot, clicked >>
       \/ /\ failures' = failures \cup {"source"}
          /\ Complete(OnException(InitialResult(TxHash), "source"), FALSE)
    /\ UNCHANGED << table, target_keyword, debug_mode, site, message, browser,
                    page, requested, final_df, attempts, parsed,
                    stopRequested, stopAt >>

\* step 3, the rest of an iteration: clicked = coordinate_click(driver)
RetryClick ==
    /\ phase = "running" /\ pc = "retry"
    /\ \E o \in ClickOutcomes :
        /\ CoordinateClick(TRUE, o)
        /\ IF BreakOnNoButton(o = "clicked")
           THEN pc' = AfterLoop /\ iter' = iter
           ELSE /\ iter' = iter + 1
                /\ pc' = IF iter + 1 < Retries THEN "loop" ELSE AfterLoop
    /\ UNCHANGED << phase, table, target_keyword, debug_mode, site, message,
                    browser, index, screenshot, results, warned, requested,
                    final_df, parsed, stopRequested, stopAt >>

\* step 4: if debug_mode: screenshot = driver.get_screenshot_as_png()
Screenshot ==
    /\ phase = "running" /\ pc = "shot"
    /\ \/ /\ screenshot' = TRUE
          /\ pc' = "parse"
          /\ UNCHANGED << phase, index, results, warned, failures, iter, clicked >>
       \/ /\ failures' = failures \cup {"screenshot"}
          /\ Complete(OnException(InitialResult(TxHash), "screenshot"), FALSE)
    /\ UNCHANGED << table, target_keyword, debug_mode, site, message, browser,
                    page, requested, final_df, attempts, parsed,
                    stopRequested, stopAt >>

\* steps 5 and 6: read the page source, parse it, search it
Parse ==
    /\ phase = "running" /\ pc = "parse"
    /\ \/ /\ parsed' = TRUE
          /\ Complete(SearchLogic(target_keyword, GetText(page), InitialResult(TxHash)),
                      screenshot)
          /\ UNCHANGED failures
       \/ /\ \E where \in {"source", "parse"} :
                /\ failures' = failures \cup {where}
                /\ Complete(OnException(InitialResult(TxHash), where), screenshot)
          /\ UNCHANGED parsed
    /\ UNCHANGED << table, target_keyword, debug_mode, site, message, browser,
                    page, requested, final_df, attempts, stopRequested, stopAt >>

\* after the loop: driver.quit(), the final table, st.success; a
\* driver.quit() that raises ends the handler before the table is built
Finish ==
    /\ phase = "running" /\ pc = "get" /\ index = Len(table)
    /\ browser' = "quit"
    /\ \/ /\ phase' = "done"
          /\ message' = "Done!"
          /\ final_df' = Concat(table, results)
       \/ /\ phase' = "crashed"
          /\ UNCHANGED << message, final_df >>
    /\ UNCHANGED << table, target_keyword, debug_mode, site, index, pc, page,
                    iter, screenshot, results, warned, requested, clicked, attempts,
                    failures, parsed, stopRequested, stopAt >>

\* the user asks the run to stop; nothing in the handler reads the request
RequestStop ==
    /\ phase = "running" /\ ~stopRequested
    /\ stopRequested' = TRUE
    /\ stopAt' = Len(requested)
    /\ UNCHANGED << phase, table, target_keyword, debug_mode, site, message,
                    browser, index, pc, page, iter, screenshot, results, warned,
                    requested, final_df, clicked, attempts, failures, parsed >>

(***************************************************************************)
(* Specifications.                                                         *)
(***************************************************************************)
InitCommon ==
    /\ phase = "idle"
    /\ target_keyword = << >>
    /\ debug_mode = FALSE
    /\ message = ""
    /\ browser = "none"
    /\ index = 0
    /\ pc = "get"
    /\ page = << >>
    /\ iter = 0
    /\ screenshot = FALSE
    /\ results = << >>
    /\ warned = {}
    /\ requested = << >>
    /\ final_df = << >>
    /\ clicked = FALSE
    /\ attempts = 0
    /\ failures = {}
    /\ parsed = FALSE
    /\ stopRequested = FALSE
    /\ stopAt = 0

\* a run over an uploaded table of up to MaxRows identifiers
Init ==
    /\ InitCommon
    /\ table \in Tables(MaxRows)
    /\ site = "small"

\* a run over one identifier, with documents of up to MaxItems nodes
InitScan ==
    /\ InitCommon
    /\ table = << << "b", " " >> >>
    /\ site = "full"

\* the handler and the scraper
Next ==
    \/ StartRejected
    \/ StartExtraction
    \/ DriverGet
    \/ WaitBody
    \/ FirstClick
    \/ LoopCheck
    \/ RetryClick
    \/ Screenshot
    \/ Parse
    \/ Finish

\* the same, with a user who may ask for a stop
NextStop ==
    \/ Next
    \/ RequestStop

Spec == Init /\ [][Next]_vars

SpecScan == InitScan /\ [][Next]_vars

SpecStop == Init /\ [][NextStop]_vars

(***************************************************************************)
(* Properties.                                                             *)
(***************************************************************************)
\* scrape_suiscan has returned for row `index` and its row was appended
RowDone == pc = "get" /\ index > 0 /\ phase \in {"running", "done"}

\* the handler never ended by an exception while the loop was running
NoRowRaised == ~(phase = "crashed" /\ browser = "active")

LastRow == results[index]

PageText == GetText(page)

\* an identifier without its surrounding blanks
Trimmed(raw) == SelectSeq(raw, LAMBDA c : c # " ")

\* kw occurs in text at 0-based position p, letter case ignored
OccursAt(kw, text, p) ==
    /\ p >= 0 /\ p + Len(kw) <= Len(text)
    /\ \A j \in 1..Len(kw) : Lower(text[p + j]) = Lower(kw[j])

OccursAnywhere(kw, text) == \E p \in 0..Len(text) : OccursAt(kw, text, p)

\* the 1-based positions q of chunk where a number ends that is followed by
\* optional blanks and then SUI
AmountEnds(chunk) ==
    { q \in 1..Len(chunk) :
        /\ IsNumChar(chunk[q])
        /\ \E k \in q..(Len(chunk) - 3) :
            /\ \A r \in (q + 1)..k : IsSpace(chunk[r])
            /\ Lower(chunk[k + 1]) = "s"
            /\ Lower(chunk[k + 2]) = "u"
            /\ Lower(chunk[k + 3]) = "i" }

\* the keyword occurrence at match_index has an amount in the Window
\* characters before it
Linked(text, match_index) == AmountEnds(TextChunk(text, match_index)) # {}

\* the number nearest to the end of chunk that is followed by SUI
NearestAmount(chunk) ==
    LET q == CHOOSE x \in AmountEnds(chunk) : \A y \in AmountEnds(chunk) : y <= x
        p == CHOOSE x \in 1..q :
                /\ \A r \in x..q : IsNumChar(chunk[r])
                /\ (x = 1 \/ ~IsNumChar(chunk[x - 1]))
    IN  SubSeq(chunk, p, q)

\* the keywords that differ from kw in letter case only
CaseVariants(kw) ==
    { k \in [1..Len(kw) -> {"N", "n", "A", "a"}] : LowerStr(k) = LowerStr(kw) }

\* C1: while the loop runs there is one result row per iterated input row,
\* and once it has finished there are exactly N rows, row i carrying the
\* identifier of input row i, whatever each transaction's outcome was; the
\* final table pairs input row i with result row i; no exception ends the
\* handler while the loop runs
C1_RowsAligned ==
    /\ NoRowRaised
    /\ browser \in {"active", "quit"} =>
        /\ Len(results) = index
        /\ \A i \in 1..Len(results) : results[i].Hash = Trimmed(table[i])
    /\ phase = "running" => (index <= Len(table) /\ (pc # "get" => index < Len(table)))
    /\ browser = "quit" => Len(results) = Len(table)
    /\ phase = "done" =>
        /\ browser = "quit"
        /\ Len(final_df) = Len(table)
        /\ \A i \in 1..Len(table) :
            /\ final_df[i].Input = << table[i] >>
            /\ final_df[i].Data = << results[i] >>

C1_Witness ==
    /\ phase = "done"
    /\ Len(table) = 2
    /\ table[1] # table[2]
    /\ results[1].Status = "Network Error"
    /\ results[2].Notes = NoteSuccess

\* what a row says about a failure at `where`
Describes(row, where) ==
    IF where = "get"
    THEN row.Status = "Network Error" /\ row.Notes = NoteUnreachable
    ELSE row.Status = "Error" /\ row.Notes = NoteException /\ row.Exc = where

\* C2 as stated: whatever failed while a row was processed (page load, wait
\* for body, click, page-source read, screenshot, parsing) is described by
\* that row's Status and Notes
C2_EveryFailureNoted ==
    RowDone => \A f \in failures : Describes(LastRow, f)

\* C2 amended: a failure of the page load, the wait for the body, a
\* page-source read, the screenshot or the parsing is described by the row's
\* Status and Notes; a failure inside coordinate_click is swallowed and, on
\* its own, leaves the row "Processed"; nothing is raised past the loop,
\* which goes on to the next row
C2_FailuresCaptured ==
    /\ NoRowRaised
    /\ RowDone =>
        /\ \A f \in failures \ {"click"} : Describes(LastRow, f)
        /\ failures \subseteq {"click"} => LastRow.Status = "Processed"
        /\ Len(results) = index
        /\ (phase = "running" /\ index < Len(table)) => ENABLED DriverGet

C2_Witness ==
    /\ RowDone
    /\ failures = {"click", "parse"}
    /\ LastRow.Status = "Error"
    /\ index < Len(table)

\* C3: a start with an empty keyword only shows the error: the browser is
\* not started, no page is requested and no row or table is produced
C3_EmptyKeywordRejected ==
    (phase # "idle" /\ target_keyword = << >>) =>
        /\ phase = "rejected"
        /\ message = "Please enter a keyword."
        /\ browser = "none"
        /\ requested = << >>
        /\ results = << >>
        /\ final_df = << >>

C3_Witness == phase = "rejected" /\ Len(table) > 0

\* C4: a row whose page could not be reached is marked "Network Error",
\* reports no amount, and neither a click nor the parsing was done for it;
\* the run goes on; no other row is marked "Network Error"
C4_NetworkErrorRow ==
    /\ NoRowRaised
    /\ RowDone =>
        /\ "get" \in failures =>
            /\ LastRow.Status = "Network Error"
            /\ LastRow.Notes = NoteUnreachable
            /\ ~LastRow.HasAmount
            /\ LastRow.Amount = << >>
            /\ attempts = 0
            /\ ~parsed
            /\ index \notin warned
        /\ LastRow.Status = "Network Error" => "get" \in failures

C4_Witness ==
    /\ RowDone
    /\ "get" \in failures
    /\ debug_mode
    /\ phase = "running"
    /\ index < Len(table)

\* C5: when the search ran and the keyword occurs nowhere in the page
\* text, the amount is the "Not Found" marker, Status is "Processed" and
\* the note says the keyword was not found
C5_NotFound ==
    (RowDone /\ parsed /\ ~OccursAnywhere(target_keyword, PageText)) =>
        /\ LastRow.HasAmount
        /\ LastRow.Amount = NotFound
        /\ LastRow.Status = "Processed"
        /\ LastRow.Notes = NoteNoKeyword

C5_Witness ==
    /\ RowDone
    /\ parsed
    /\ LastRow.Notes = NoteNoKeyword
    /\ PageText # << >>
    /\ KeywordInSource(target_keyword, page)

\* C6: when the search ran and some keyword occurrence has an amount in the
\* Window characters before it, the row is a success with Status
\* "Processed", also when earlier occurrences have no amount
C6_ScanContinues ==
    (RowDone /\ parsed) =>
        LET km == KeywordMatches(target_keyword, PageText)
        IN  (\E i \in 1..Len(km) : Linked(PageText, km[i])) =>
                /\ LastRow.Notes = NoteSuccess
                /\ LastRow.Status = "Processed"
                /\ LastRow.HasAmount
                /\ LastRow.Amount # NotFound

C6_Witness ==
    /\ RowDone
    /\ parsed
    /\ LastRow.Notes = NoteSuccess
    /\ LET km == KeywordMatches(target_keyword, PageText)
       IN  Len(km) >= 2 /\ ~Linked(PageText, km[1])

\* C7: a keyword that differs from the one given in letter case only would
\* have made the same decisions: the same answer of the pagination loop's
\* test on every document it was asked about, and the same amount, status
\* and note for the row
C7_CaseInsensitive ==
    \A k2 \in CaseVariants(target_keyword) :
        /\ (phase = "running" /\ pc \in {"loop", "retry"}) =>
              KeywordStopsLoop(k2, page) = KeywordStopsLoop(target_keyword, page)
        /\ (RowDone /\ parsed) =>
              LET other == SearchLogic(k2, PageText, InitialResult(LastRow.Hash))
              IN  /\ other.Amount = LastRow.Amount
                  /\ other.Notes = LastRow.Notes
                  /\ other.Status = LastRow.Status

C7_Witness ==
    /\ RowDone
    /\ parsed
    /\ LastRow.Notes = NoteSuccess
    /\ attempts >= 2
    /\ ~Contains(target_keyword, PageText)

\* C9: when the search ran, the row is a success exactly when some keyword
\* occurrence has an amount in the Window characters before it; the amount
\* reported is then the one nearest to the earliest such occurrence, and the
\* text after that occurrence does not change it
C9_FirstMatchWins ==
    (RowDone /\ parsed) =>
        LET km == KeywordMatches(target_keyword, PageText)
            linked == { i \in 1..Len(km) : Linked(PageText, km[i]) }
        IN  IF linked = {}
            THEN LastRow.Notes # NoteSuccess /\ LastRow.Amount = NotFound
            ELSE LET i == CHOOSE x \in linked : \A y \in linked : x <= y
                     upTo == Slice(PageText, 0, km[i] + Len(target_keyword))
                 IN  /\ LastRow.Notes = NoteSuccess
                     /\ LastRow.Amount = NearestAmount(TextChunk(PageText, km[i]))
                     /\ SearchLogic(target_keyword, upTo,
                                    InitialResult(LastRow.Hash)) = LastRow

C9_Witness ==
    /\ RowDone
    /\ parsed
    /\ LastRow.Notes = NoteSuccess
    /\ LET km == KeywordMatches(target_keyword, PageText)
       IN  /\ Len(km) >= 2
           /\ ~Linked(PageText, km[1])
           /\ Cardinality(AmountEnds(TextChunk(PageText, km[2]))) >= 2

\* C8 as stated: once a stop was asked, no further transaction is fetched,
\* and the finished run marks every identifier not processed as "Skipped"
C8_StopHonoured ==
    stopRequested =>
        /\ Len(requested) = stopAt
        /\ phase = "done" =>
            /\ Len(results) = Len(table)
            /\ \A i \in (stopAt + 1)..Len(results) : results[i].Status = "Skipped"

\* C10 as stated: every transaction sees between one and four
\* coordinate_click attempts, and its page is parsed
C10_AlwaysClickedAndParsed ==
    RowDone => (attempts >= 1 /\ attempts <= Retries + 1 /\ parsed)

\* C10 amended: a transaction whose page loaded and whose body appeared
\* sees between one and four coordinate_click attempts (none otherwise);
\* an attempt inside the retry loop is only made while the keyword is absent
\* from the page source and the loop's previous attempt clicked something;
\* the page is parsed unless a page-source read, the screenshot or the
\* parsing raised
C10_BoundedExpansion ==
    /\ attempts <= Retries + 1
    /\ (phase = "running" /\ pc \in {"loop", "retry", "shot", "parse"}) =>
        (attempts >= 1 /\ attempts <= iter + 2)
    /\ (phase = "running" /\ pc = "retry") =>
        /\ ~OccursAnywhere(target_keyword, PageSource(page))
        /\ iter < Retries
        /\ iter > 0 => clicked
    /\ RowDone =>
        /\ (failures \cap {"get", "wait"} = {}) => attempts >= 1
        /\ (failures \cap {"get", "wait"} # {}) => attempts = 0
        /\ parsed <=> (failures \cap {"get", "wait", "source", "screenshot", "parse"} = {})

C10_Witness ==
    /\ RowDone
    /\ attempts = Retries + 1
    /\ parsed
    /\ LastRow.Notes = NoteNoKeyword
====
